---- MODULE Spec2Model ----
(***************************************************************************)
(* Authentication and authorization core of the biosphere API backend:     *)
(* the users table (models.py), the /auth handlers and the bearer-token    *)
(* dependency (auth.py), the create_admin bootstrap script                 *)
(* (create_admin.py) and the /admin routes (main.py).                      *)
(*                                                                         *)
(* Every handler is an operator from (store, input) to its result, and the *)
(* actions apply these operators.  Spec runs the handlers one request at   *)
(* a time.  SpecRace runs the handlers that read the store and later       *)
(* write it (register, register_admin, create_admin) as two steps, a read  *)
(* and a commit, so that requests interleave at the storage round trips.   *)
(***************************************************************************)
EXTENDS Integers, Sequences, FiniteSets, Bags, TLC

VARIABLES users, reviews, questions, now, pending, tokens, resp

vars == <<users, reviews, questions, now, pending, tokens, resp>>

(***************************************************************************)
(* Bounds of the model.                                                    *)
(***************************************************************************)
MaxInFlight == 2
MaxTime == 10081

(***************************************************************************)
(* Program constants.                                                      *)
(***************************************************************************)
SECRET_KEY == "supersecret"
ACCESS_TOKEN_EXPIRE_MINUTES == 60 * 24 * 7
SentinelEmail == "admin@biosfera.ru"
admin_email == "admin@biosphere.ru"
admin_password == "ADMINBIO"
OneYearMinutes == 365 * 24 * 60

(***************************************************************************)
(* Inputs.                                                                 *)
(***************************************************************************)
Emails == {SentinelEmail, admin_email}
RegisterPasswords == {"pw1"}
LoginPasswords == {"pw1", admin_password}
Salts == {"s1"}
Lanes == {"user", "admin"}
AdminRoutes == {"export", "cleanup", "statistics", "logs"}

\* The body of a registration request (schemas.UserCreate plus the extra
\* is_admin field a caller may send along).
Payloads ==
    [name : {"User"}, email : Emails, phone : {"111"},
     password : RegisterPasswords, is_admin : BOOLEAN]

(***************************************************************************)
(* Password hasher (passlib bcrypt): the hash embeds its salt, and         *)
(* verification recomputes the digest from the embedded salt.              *)
(***************************************************************************)
Digest(salt, password) == <<salt, password>>

get_password_hash(password, salt) ==
    [salt |-> salt, digest |-> Digest(salt, password)]

verify_password(plain_password, hashed_password) ==
    hashed_password.digest = Digest(hashed_password.salt, plain_password)

(***************************************************************************)
(* The users table.                                                        *)
(***************************************************************************)
User(id, name, email, phone, password_hash, is_admin) ==
    [id |-> id, name |-> name, email |-> email, phone |-> phone,
     password_hash |-> password_hash, is_admin |-> is_admin]

Ids(us) == {u.id : u \in us}

MaxOf(S) == IF S = {} THEN 0 ELSE CHOOSE m \in S : \A n \in S : n <= m

\* Integer primary key of a table created by Base.metadata.create_all on
\* SQLite: a new row gets the successor of the largest id in the table.
NewId(us) == MaxOf(Ids(us)) + 1

\* The unique index on users.email, enforced when a row is inserted.
UniqueEmailOKNoIndex(us, email) == TRUE

UniqueEmailOK(us, email) == \A u \in us : u.email # email

\* db.query(User).filter(User.email == email).first(): the matching rows.
get_user_by_email(us, email) == {u \in us : u.email = email}

NoUser == User(0, "", "", "", get_password_hash("", "s1"), FALSE)

First(S) == IF S = {} THEN NoUser ELSE CHOOSE u \in S : TRUE

(***************************************************************************)
(* Requests in flight: a handler that has read the store and not yet       *)
(* committed.  A registration holds the row it built; create_admin holds   *)
(* what its two queries returned.                                          *)
(***************************************************************************)
NoRow == [name |-> "", email |-> "", phone |-> "",
          password_hash |-> get_password_hash("", "s1"), is_admin |-> FALSE]

Idle ==
    [kind |-> "idle", row |-> NoRow, existing_admin |-> 0,
     existing_user |-> 0, user_was_admin |-> FALSE]

InFlight(kind, row) == [Idle EXCEPT !.kind = kind, !.row = row]

CanStart == BagCardinality(pending) < MaxInFlight

Start(req) == pending (+) SetToBag({req})

Finish(req) == pending (-) SetToBag({req})

\* The last response: the operation, its status and the request it answers.
Response(op, status, req) == [op |-> op, status |-> status, req |-> req]

NoRequest == [kind |-> "none"]

EmailOf(r) == [email |-> r.email]

(***************************************************************************)
(* POST /auth/register.                                                    *)
(***************************************************************************)
\* The duplicate check at the head of register and register_admin: the
\* status raised, or 0 when the handler goes on.
DuplicateCheck(us, email) ==
    IF get_user_by_email(us, email) # {} THEN 400 ELSE 0

\* The admin flag register gives the new row.
RegisterIsAdminFromPayload(payload) == payload.is_admin

RegisterIsAdmin(payload) == FALSE

\* The row register builds from the request body.
register_row(payload, salt) ==
    [name |-> payload.name, email |-> payload.email, phone |-> payload.phone,
     password_hash |-> get_password_hash(payload.password, salt),
     is_admin |-> RegisterIsAdmin(payload)]

\* db.add; db.commit; db.refresh: the insert fails on the unique index
\* (IntegrityError, which the handlers do not catch: a 500).
InsertUser(us, row) ==
    IF UniqueEmailOK(us, row.email)
    THEN [status |-> 200,
          users |-> us \cup {User(NewId(us), row.name, row.email, row.phone,
                                  row.password_hash, row.is_admin)}]
    ELSE [status |-> 500, users |-> us]

(***************************************************************************)
(* POST /auth/admin/register.                                              *)
(***************************************************************************)
IsSentinelAnyEmail(email) == TRUE

IsSentinel(email) == email = SentinelEmail

register_admin_check(us, email) ==
    IF DuplicateCheck(us, email) # 0 THEN 400
    ELSE IF ~IsSentinel(email) THEN 403
    ELSE 0

register_admin_row(payload, salt) ==
    [name |-> payload.name, email |-> payload.email, phone |-> payload.phone,
     password_hash |-> get_password_hash(payload.password, salt),
     is_admin |-> TRUE]

RegisterRead(payload) ==
    /\ CanStart
    /\ LET s == DuplicateCheck(users, payload.email) IN
         IF s # 0
         THEN /\ resp' = Response("register", s, EmailOf(payload))
              /\ UNCHANGED pending
         ELSE /\ \E salt \in Salts :
                   pending' = Start(InFlight("register", register_row(payload, salt)))
              /\ UNCHANGED resp
    /\ UNCHANGED <<users, reviews, questions, now, tokens>>

RegisterAdminRead(payload) ==
    /\ CanStart
    /\ LET s == register_admin_check(users, payload.email) IN
         IF s # 0
         THEN /\ resp' = Response("register_admin", s, EmailOf(payload))
              /\ UNCHANGED pending
         ELSE /\ \E salt \in Salts :
                   pending' = Start(InFlight("register_admin",
                                             register_admin_row(payload, salt)))
              /\ UNCHANGED resp
    /\ UNCHANGED <<users, reviews, questions, now, tokens>>

RegisterCommit(req) ==
    /\ BagIn(req, pending)
    /\ req.kind \in {"register", "register_admin"}
    /\ LET r == InsertUser(users, req.row) IN
         /\ users' = r.users
         /\ resp' = Response(req.kind, r.status, EmailOf(req.row))
    /\ pending' = Finish(req)
    /\ UNCHANGED <<reviews, questions, now, tokens>>

\* The handlers run from request to response without interleaving.
register(us, payload, salt) ==
    IF DuplicateCheck(us, payload.email) # 0
    THEN [status |-> 400, users |-> us]
    ELSE InsertUser(us, register_row(payload, salt))

register_admin(us, payload, salt) ==
    IF register_admin_check(us, payload.email) # 0
    THEN [status |-> register_admin_check(us, payload.email), users |-> us]
    ELSE InsertUser(us, register_admin_row(payload, salt))

Register(payload) ==
    /\ \E salt \in Salts :
         LET r == register(users, payload, salt) IN
           /\ users' = r.users
           /\ resp' = Response("register", r.status, payload)
    /\ UNCHANGED <<reviews, questions, now, pending, tokens>>

RegisterAdmin(payload) ==
    /\ \E salt \in Salts :
         LET r == register_admin(users, payload, salt) IN
           /\ users' = r.users
           /\ resp' = Response("register_admin", r.status, payload)
    /\ UNCHANGED <<reviews, questions, now, pending, tokens>>

(***************************************************************************)
(* Tokens (python-jose, HS256).  A token is its claims and the key that    *)
(* signed it; the "sub" claim is a string, a sequence of characters.       *)
(***************************************************************************)
Digits == <<"0", "1", "2", "3", "4", "5", "6", "7", "8", "9">>

RECURSIVE Str(_)
\* str(n) of a non-negative integer.
Str(n) == IF n < 10 THEN <<Digits[n + 1]>>
          ELSE Str(n \div 10) \o <<Digits[(n % 10) + 1]>>

DigitValue(c) == (CHOOSE i \in 1..10 : Digits[i] = c) - 1

IsDigit(c) == \E i \in 1..10 : Digits[i] = c

RECURSIVE DecimalValue(_)
DecimalValue(cs) ==
    IF cs = <<>> THEN 0
    ELSE 10 * DecimalValue(SubSeq(cs, 1, Len(cs) - 1)) + DigitValue(cs[Len(cs)])

\* int(s) on a string of decimal digits; anything else raises ValueError.
IntParses(cs) == cs # <<>> /\ \A i \in 1..Len(cs) : IsDigit(cs[i])

IntOf(cs) == DecimalValue(cs)

StrSub(cs) == [t |-> "str", v |-> cs]
NoSub == [t |-> "absent", v |-> <<>>]
NumSub == [t |-> "int", v |-> <<"1">>]

Jwt(sub, has_exp, exp, key) ==
    [kind |-> "jwt", sub |-> sub, has_exp |-> has_exp, exp |-> exp, key |-> key]

\* No Authorization header, and a string that is no JWT.
NoToken == [Jwt(NoSub, FALSE, 0, "") EXCEPT !.kind = "none"]
Garbage == [Jwt(NoSub, FALSE, 0, "") EXCEPT !.kind = "garbage"]

\* The expiry create_access_token stamps on a token.
ExpireInPast(t) == t - ACCESS_TOKEN_EXPIRE_MINUTES

Expire(t) == t + ACCESS_TOKEN_EXPIRE_MINUTES

create_access_token(data, t) == Jwt(StrSub(data), TRUE, Expire(t), SECRET_KEY)

\* jwt.decode: "ok" with the claims, or "JWTError".
jwt_decode(token, key, t) ==
    IF token.kind # "jwt" THEN "JWTError"
    ELSE IF token.key # key THEN "JWTError"
    ELSE IF token.has_exp /\ token.exp < t THEN "JWTError"
    ELSE IF token.sub.t = "int" THEN "JWTError"
    ELSE "ok"

\* db.query(User).filter(User.id == id).first()
get_user_by_id(us, id) == {u \in us : u.id = id}

AuthResult(status, user) == [status |-> status, user |-> user]

\* get_current_user behind oauth2_scheme: 200 with the account, 401, or
\* 500 when int(user_id) raises outside the try block.
get_current_user(token, us, t) ==
    IF token.kind = "none" THEN AuthResult(401, NoUser)
    ELSE IF jwt_decode(token, SECRET_KEY, t) # "ok" THEN AuthResult(401, NoUser)
    ELSE IF token.sub.t = "absent" THEN AuthResult(401, NoUser)
    ELSE IF ~IntParses(token.sub.v) THEN AuthResult(500, NoUser)
    ELSE IF get_user_by_id(us, IntOf(token.sub.v)) = {} THEN AuthResult(401, NoUser)
    ELSE AuthResult(200, First(get_user_by_id(us, IntOf(token.sub.v))))

(***************************************************************************)
(* POST /auth/token and POST /auth/admin/token.                            *)
(***************************************************************************)
\* The role check of each lane: login refuses admins, admin_login refuses
\* the others.
LaneAllowsAnyone(lane, is_admin) == TRUE

LaneAllows(lane, is_admin) ==
    IF lane = "user" THEN ~is_admin ELSE is_admin

LoginStatusLaneFirst(found, user, password, lane) ==
    IF ~found THEN 401
    ELSE IF ~LaneAllows(lane, user.is_admin) THEN 403
    ELSE IF ~verify_password(password, user.password_hash) THEN 401
    ELSE 200

LoginStatus(found, user, password, lane) ==
    IF ~found \/ ~verify_password(password, user.password_hash) THEN 401
    ELSE IF ~LaneAllows(lane, user.is_admin) THEN 403
    ELSE 200

LoginResult(status, token) == [status |-> status, token |-> token]

\* login (lane "user") and admin_login (lane "admin").
login(lane, us, email, password, t) ==
    LET found == get_user_by_email(us, email) # {}
        user == First(get_user_by_email(us, email))
        status == LoginStatus(found, user, password, lane)
    IN IF status = 200
       THEN LoginResult(200, create_access_token(Str(user.id), t))
       ELSE LoginResult(status, NoToken)

Credentials(email, password) == [username |-> email, password |-> password]

\* tokens[lane] is the token the client holds from its last successful
\* login on that lane (NoToken: none yet).
Login(lane, email, password) ==
    LET r == login(lane, users, email, password, now) IN
      /\ tokens' = IF r.status = 200 THEN [tokens EXCEPT ![lane] = r.token]
                   ELSE tokens
      /\ resp' = Response(IF lane = "user" THEN "login" ELSE "admin_login",
                          r.status, Credentials(email, password))
      /\ UNCHANGED <<users, reviews, questions, now, pending>>

(***************************************************************************)
(* The /admin routes of main.py.                                           *)
(***************************************************************************)
Record(id, created_at, admin_reply) ==
    [id |-> id, created_at |-> created_at, admin_reply |-> admin_reply]

\* Rows older than one year without an admin reply.
IsOld(r, t) == r.created_at < t - OneYearMinutes /\ ~r.admin_reply

\* if not current_user.is_admin: raise 403
RequireAdmin(user) == user.is_admin

\* The outcome of a route: its status, the tables its body read, and the
\* reviews and questions it leaves.
RouteResult(status, read, rv, qs) ==
    [status |-> status, read |-> read, reviews |-> rv, questions |-> qs]

AllTables == {"specialists", "reviews", "questions", "users"}

\* export_data reads every table and then fails on u.created_at, an
\* attribute User does not have, whenever there is a user to list.
export_data(user, us, rv, qs) ==
    RouteResult(IF us = {} THEN 200 ELSE 500, AllTables, rv, qs)

cleanup_old_data(user, rv, qs, t) ==
    RouteResult(200, {"reviews", "questions"},
                {r \in rv : ~IsOld(r, t)}, {q \in qs : ~IsOld(q, t)})

get_detailed_statistics(user, rv, qs) ==
    RouteResult(200, AllTables, rv, qs)

get_system_logs(user, rv, qs) ==
    RouteResult(200, {"reviews", "questions"}, rv, qs)

\* A request to one of the four routes that depend on get_current_user.
admin_route(route, token, us, rv, qs, t) ==
    LET a == get_current_user(token, us, t) IN
      IF a.status # 200 THEN RouteResult(a.status, {}, rv, qs)
      ELSE IF ~RequireAdmin(a.user) THEN RouteResult(403, {}, rv, qs)
      ELSE IF route = "export" THEN export_data(a.user, us, rv, qs)
      ELSE IF route = "cleanup" THEN cleanup_old_data(a.user, rv, qs, t)
      ELSE IF route = "statistics" THEN get_detailed_statistics(a.user, rv, qs)
      ELSE get_system_logs(a.user, rv, qs)

\* Tokens a client may present that no login issued.
ForgedTokens ==
    { Jwt(StrSub(Str(1)), TRUE, MaxTime + ACCESS_TOKEN_EXPIRE_MINUTES, "other-key"),
      Jwt(StrSub(<<"a", "b", "c">>), FALSE, 0, SECRET_KEY),
      Jwt(NoSub, FALSE, 0, SECRET_KEY),
      Jwt(NumSub, FALSE, 0, SECRET_KEY) }

Presentable(toks) == {NoToken, Garbage} \cup ForgedTokens \cup {toks[l] : l \in Lanes}

AdminRequest(route, token) ==
    LET r == admin_route(route, token, users, reviews, questions, now) IN
      /\ reviews' = r.reviews
      /\ questions' = r.questions
      /\ resp' = Response(route, r.status, token)
      /\ UNCHANGED <<users, now, pending, tokens>>

\* POST /admin/clear_all: no dependency on get_current_user.
clear_all ==
    /\ users' = {}
    /\ reviews' = {}
    /\ questions' = {}
    /\ resp' = Response("clear_all", 200, NoRequest)
    /\ UNCHANGED <<now, pending, tokens>>

(***************************************************************************)
(* create_admin.py: the bootstrap script, one transaction.                 *)
(***************************************************************************)
Admins(us) == {u \in us : u.is_admin}

\* The two queries of create_admin.  first() on the admins carries no
\* ORDER BY: any admin row may come back.  A snapshot names the row whose
\* flag the session cleared (0: none), the row with the bootstrap email
\* (0: none) and whether that row was loaded as an admin.
Snapshot(demoted, existing_user, user_was_admin) ==
    [Idle EXCEPT !.kind = "create_admin", !.existing_admin = demoted,
                 !.existing_user = existing_user, !.user_was_admin = user_was_admin]

DemotedChoices(us) ==
    IF Admins(us) = {} THEN {0}
    ELSE {IF a.email # admin_email THEN a.id ELSE 0 : a \in Admins(us)}

create_admin_read(us) ==
    LET eu == get_user_by_email(us, admin_email) IN
      { Snapshot(d, First(eu).id, First(eu).is_admin) : d \in DemotedChoices(us) }

CommitOutcome(status, us) == [status |-> status, users |-> us]

UpdateRow(us, id, new) == {IF u.id = id THEN new ELSE u : u \in us}

RowOf(us, id) == First(get_user_by_id(us, id))

\* The flush at db.commit(): an UPDATE by primary key for each changed row
\* (a row that is gone fails the flush), an INSERT for the new admin (the
\* unique index may refuse it).  Any failure rolls everything back.
create_admin_commit(us, snap, salt) ==
    LET stale == \/ snap.existing_admin # 0 /\ snap.existing_admin \notin Ids(us)
                 \/ snap.existing_user # 0 /\ snap.existing_user \notin Ids(us)
        afterDemote ==
            IF snap.existing_admin = 0 THEN us
            ELSE UpdateRow(us, snap.existing_admin,
                           [RowOf(us, snap.existing_admin) EXCEPT !.is_admin = FALSE])
        hash == get_password_hash(admin_password, salt)
        old == RowOf(afterDemote, snap.existing_user)
        updated ==
            [old EXCEPT !.is_admin = IF snap.user_was_admin THEN old.is_admin ELSE TRUE,
                        !.password_hash = hash, !.name = "Admin",
                        !.phone = "0000000000"]
    IN IF stale THEN CommitOutcome(500, us)
       ELSE IF snap.existing_user # 0
            THEN CommitOutcome(200, UpdateRow(afterDemote, snap.existing_user, updated))
       ELSE IF ~UniqueEmailOK(afterDemote, admin_email) THEN CommitOutcome(500, us)
       ELSE CommitOutcome(200,
                afterDemote \cup {User(NewId(afterDemote), "Admin", admin_email, "0000000000", hash, TRUE)})

CreateAdminRead ==
    /\ CanStart
    /\ \E snap \in create_admin_read(users) : pending' = Start(snap)
    /\ UNCHANGED <<users, reviews, questions, now, tokens, resp>>

CreateAdminCommit(req) ==
    /\ BagIn(req, pending)
    /\ req.kind = "create_admin"
    /\ \E salt \in Salts :
         LET r == create_admin_commit(users, req, salt) IN
           /\ users' = r.users
           /\ resp' = Response("create_admin", r.status, NoRequest)
    /\ pending' = Finish(req)
    /\ UNCHANGED <<reviews, questions, now, tokens>>

\* The script run from start to end without interleaving.
create_admin(us, salt) ==
    {create_admin_commit(us, snap, salt) : snap \in create_admin_read(us)}

CreateAdmin ==
    /\ \E salt \in Salts : \E r \in create_admin(users, salt) :
         /\ users' = r.users
         /\ resp' = Response("create_admin", r.status, NoRequest)
    /\ UNCHANGED <<reviews, questions, now, pending, tokens>>

\* Time passes: long enough for a token issued before to expire.
Tick ==
    /\ now + ACCESS_TOKEN_EXPIRE_MINUTES + 1 <= MaxTime
    /\ now' = now + ACCESS_TOKEN_EXPIRE_MINUTES + 1
    /\ UNCHANGED <<users, reviews, questions, pending, tokens, resp>>

(***************************************************************************)
(* The system.                                                             *)
(***************************************************************************)
SeedReviews ==
    { Record(1, 0 - OneYearMinutes - 1, FALSE), Record(2, 0, FALSE) }

SeedQuestions == { Record(1, 0 - OneYearMinutes - 1, FALSE) }

Init ==
    /\ users = {}
    /\ reviews = SeedReviews
    /\ questions = SeedQuestions
    /\ now = 0
    /\ pending = EmptyBag
    /\ tokens = [l \in Lanes |-> NoToken]
    /\ resp = Response("none", 0, NoRequest)

Next ==
    \/ \E payload \in Payloads : Register(payload)
    \/ \E payload \in Payloads : RegisterAdmin(payload)
    \/ \E lane \in Lanes, email \in Emails, password \in LoginPasswords :
          Login(lane, email, password)
    \/ \E route \in AdminRoutes, token \in Presentable(tokens) :
          AdminRequest(route, token)
    \/ clear_all
    \/ CreateAdmin
    \/ Tick

Spec == Init /\ [][Next]_vars

NextRace ==
    \/ \E payload \in Payloads : RegisterRead(payload)
    \/ \E payload \in Payloads : RegisterAdminRead(payload)
    \/ \E req \in BagToSet(pending) : RegisterCommit(req)
    \/ CreateAdminRead
    \/ \E req \in BagToSet(pending) : CreateAdminCommit(req)
    \/ clear_all

SpecRace == Init /\ [][NextRace]_vars

(***************************************************************************)
(* Properties.                                                             *)
(***************************************************************************)
Registered(us, email) == \E u \in us : u.email = email

\* C1: POST /auth/register never produces an admin account.  In every
\* reachable store and for every request body, also one that carries
\* is_admin: true, a successful register adds exactly one account, that
\* account has the requested email and is_admin false, and every account
\* that existed before is left as it was; a failed register changes nothing.
C1_RegisterNeverAdmin ==
    \A payload \in Payloads, salt \in Salts :
        LET r == register(users, payload, salt) IN
          IF r.status = 200
          THEN \E u \in r.users \ users :
                  /\ r.users = users \cup {u}
                  /\ u.email = payload.email
                  /\ ~u.is_admin
          ELSE r.users = users

\* A register request that carried is_admin: true was answered with success
\* and its account is in the store.
C1_Witness ==
    /\ resp.op = "register"
    /\ resp.status = 200
    /\ resp.req.is_admin
    /\ \E u \in users : u.email = resp.req.email /\ ~u.is_admin

\* C2 as stated: POST /auth/admin/register with any email other than the
\* sentinel fails with 403 and creates no account, in every store state,
\* also when that email is already registered.
C2_NonSentinelAlwaysForbidden ==
    \A payload \in Payloads, salt \in Salts :
        payload.email # SentinelEmail =>
            LET r == register_admin(users, payload, salt) IN
              r.status = 403 /\ r.users = users

\* C2, amended: POST /auth/admin/register with any email other than the
\* sentinel creates no account, in every store state and for every value of
\* the other fields; it fails with 403 when that email is not registered and
\* with 400 (the duplicate check comes first) when it is.
C2_NonSentinelRejected ==
    \A payload \in Payloads, salt \in Salts :
        payload.email # SentinelEmail =>
            LET r == register_admin(users, payload, salt) IN
              /\ r.users = users
              /\ r.status = IF Registered(users, payload.email) THEN 400 ELSE 403

\* An admin registration with a non-sentinel email was answered 403.
C2_Witness ==
    /\ resp.op = "register_admin"
    /\ resp.status = 403
    /\ resp.req.email # SentinelEmail
    /\ ~Registered(users, resp.req.email)

\* C3: registering, on either path, with the email of an existing account
\* fails with 400 and leaves the store unchanged, also when the existing
\* account was created by a request that ran concurrently: a request that
\* passed its own duplicate check before the other one committed.
C3_DuplicateAlways400 ==
    /\ \A payload \in Payloads, salt \in Salts :
          Registered(users, payload.email) =>
              /\ register(users, payload, salt) = [status |-> 400, users |-> users]
              /\ register_admin(users, payload, salt) = [status |-> 400, users |-> users]
    /\ \A req \in BagToSet(pending) :
          req.kind \in {"register", "register_admin"} /\ Registered(users, req.row.email) =>
              InsertUser(users, req.row) = [status |-> 400, users |-> users]

\* C4: no two accounts in the store have the same email, after any
\* interleaving of register, register_admin, create_admin and clear_all.
C4_EmailUnique ==
    \A u, v \in users : u.email = v.email => u = v

\* Two requests for one email both passed the duplicate check; one
\* committed and the other was refused by the store.
C4_Witness ==
    /\ resp.op \in {"register", "register_admin", "create_admin"}
    /\ resp.status = 500
    /\ Cardinality(users) >= 2

Account(us, email) == First(get_user_by_email(us, email))

PasswordOK(us, email, password) ==
    /\ Registered(us, email)
    /\ verify_password(password, Account(us, email).password_hash)

\* C5: login is a two-lane gate.  With correct credentials /auth/token
\* answers 403 for an admin account and /auth/admin/token answers 403 for a
\* non-admin account; the non-admin lane issues a token only for an account
\* that is not admin when it logs in, the admin lane only for one that is,
\* and the token issued carries that account's id.
C5_TwoLaneGate ==
    \A email \in Emails, password \in LoginPasswords :
        LET u == Account(users, email)
            ok == PasswordOK(users, email, password)
            user_lane == login("user", users, email, password, now)
            admin_lane == login("admin", users, email, password, now)
        IN /\ ok /\ u.is_admin => user_lane.status = 403 /\ user_lane.token = NoToken
           /\ ok /\ ~u.is_admin => admin_lane.status = 403 /\ admin_lane.token = NoToken
           /\ user_lane.status = 200 =>
                 ok /\ ~u.is_admin /\ user_lane.token.sub = StrSub(Str(u.id))
           /\ admin_lane.status = 200 =>
                 ok /\ u.is_admin /\ admin_lane.token.sub = StrSub(Str(u.id))

\* An admin account presented its password on the non-admin lane and was
\* answered 403.
C5_Witness ==
    /\ resp.op = "login"
    /\ resp.status = 403
    /\ PasswordOK(users, resp.req.username, resp.req.password)
    /\ Account(users, resp.req.username).is_admin

\* C6: on either lane a login attempt looks the account up, verifies the
\* password, checks the lane and issues the token, in that order, and the
\* first failing step ends it: an unknown email or a wrong password is 401
\* whatever the admin flag and the lane, 403 is answered only after the
\* password verified, and a token is issued exactly when all three passed.
C6_LoginOrder ==
    \A lane \in Lanes, email \in Emails, password \in LoginPasswords :
        LET u == Account(users, email)
            ok == PasswordOK(users, email, password)
            lane_ok == (lane = "admin") = u.is_admin
            r == login(lane, users, email, password, now)
        IN /\ r.status \in {200, 401, 403}
           /\ ~ok => r.status = 401
           /\ r.status = 403 => ok /\ ~lane_ok
           /\ r.status = 200 <=> ok /\ lane_ok
           /\ r.token # NoToken <=> r.status = 200

\* An admin account's email with a wrong password on the non-admin lane was
\* answered 401: the lane was not reached.
C6_Witness ==
    /\ resp.op = "login"
    /\ resp.status = 401
    /\ Registered(users, resp.req.username)
    /\ Account(users, resp.req.username).is_admin
    /\ ~PasswordOK(users, resp.req.username, resp.req.password)

\* C7: for every account a in the store, a token issued for a.id
\* (create_access_token with sub = str(a.id)) and presented at once, with
\* the store as it is, authenticates as exactly account a.
C7_RoundTrip ==
    \A a \in users :
        get_current_user(create_access_token(Str(a.id), now), users, now)
            = AuthResult(200, a)

\* A token issued by a login at this time for an account still in the store
\* was presented to a route, which authenticated it (and refused the
\* non-admin account it names).
C7_Witness ==
    /\ resp.op \in AdminRoutes
    /\ resp.status = 403
    /\ resp.req = tokens["user"]
    /\ \E a \in users : resp.req = create_access_token(Str(a.id), now)

\* A token is valid: signed with the server secret, not expired, its
\* subject the id of an account in the store.
ValidToken(token, us, t) ==
    /\ token.kind = "jwt"
    /\ token.key = SECRET_KEY
    /\ token.has_exp => token.exp >= t
    /\ \E u \in us : token.sub = StrSub(Str(u.id))

AuthenticatesOnlyValid(token) ==
    LET r == get_current_user(token, users, now) IN
      /\ r.status \in {200, 401}
      /\ r.status = 200 =>
            /\ ValidToken(token, users, now)
            /\ r.user \in users
            /\ token.sub = StrSub(Str(r.user.id))
      /\ ~ValidToken(token, users, now) => r.status = 401

\* C8: whenever a request presents a token, get_current_user returns an
\* account only if the token is valid, and then the account its subject
\* names; every other token (tampered signature, expired, unparseable,
\* missing or unusable subject, subject of a deleted account, no token at
\* all) is answered 401 and nothing else.
C8_AuthenticateOnlyValid ==
    [][\A route \in AdminRoutes, token \in Presentable(tokens) :
          AdminRequest(route, token) => AuthenticatesOnlyValid(token)]_vars

RejectsWithoutRunning(route, token) ==
    LET r == admin_route(route, token, users, reviews, questions, now)
        a == get_current_user(token, users, now)
        untouched == r.read = {} /\ r.reviews = reviews /\ r.questions = questions
    IN /\ ~ValidToken(token, users, now) => r.status = 401 /\ untouched
       /\ ValidToken(token, users, now) /\ a.status = 200 /\ ~a.user.is_admin =>
             r.status = 403 /\ untouched

\* C9: on /admin/export, /admin/cleanup, /admin/statistics and /admin/logs
\* a request with no token or an invalid token is answered 401, a request
\* with a valid token of a non-admin account is answered 403, and in both
\* cases the body does not run: nothing is read and nothing is deleted.
C9_AdminRoutesReject ==
    [][\A route \in AdminRoutes, token \in Presentable(tokens) :
          AdminRequest(route, token) =>
              /\ RejectsWithoutRunning(route, token)
              /\ ~ValidToken(token, users, now) => resp'.status = 401
              /\ resp'.status \in {401, 403} =>
                    reviews' = reviews /\ questions' = questions]_vars

\* C10: right after a run of create_admin that committed, exactly one
\* account is admin, and it is the bootstrap account admin@biosphere.ru.
C10_SingleAdminAfterBootstrap ==
    resp.op = "create_admin" /\ resp.status = 200 =>
        \E a \in users : a.email = admin_email /\ Admins(users) = {a}

\* The admin check of an admin-only route lets the request through: the
\* token authenticates and the account it names has is_admin set, so the
\* route's body runs.
PassesAdminCheck(token, us, t) ==
    LET a == get_current_user(token, us, t) IN
      a.status = 200 /\ RequireAdmin(a.user)

\* C11: a token issued by /auth/token is never accepted by /admin/export,
\* /admin/cleanup, /admin/statistics or /admin/logs while it is valid:
\* whatever registrations, logins and create_admin runs came before, a
\* request carrying it does not pass the admin check and the body of the
\* route does not run.
C11_UserLaneTokenNeverAdmin ==
    [][\A route \in AdminRoutes :
          /\ tokens["user"] # NoToken
          /\ ValidToken(tokens["user"], users, now)
          /\ AdminRequest(route, tokens["user"])
          => /\ ~PassesAdminCheck(tokens["user"], users, now)
             /\ admin_route(route, tokens["user"], users, reviews, questions, now).read = {}
             /\ resp'.status = 403]_vars

\* A step that is one HTTP request (a route of auth.py or main.py) whose
\* Authorization header carries no valid token of an admin account; the
\* create_admin script and the passing of time are not requests.
UnprivilegedRequest ==
    \/ \E payload \in Payloads : Register(payload)
    \/ \E payload \in Payloads : RegisterAdmin(payload)
    \/ \E lane \in Lanes, email \in Emails, password \in LoginPasswords :
          Login(lane, email, password)
    \/ \E route \in AdminRoutes, token \in Presentable(tokens) :
          /\ ~PassesAdminCheck(token, users, now)
          /\ AdminRequest(route, token)
    \/ clear_all

\* C12: a request that carries no valid token of an admin account never
\* removes an account: after it every User record that was stored is still
\* stored, whatever the route, /admin/* routes included.
C12_UsersRemovedOnlyByAdmin ==
    [][UnprivilegedRequest => users \subseteq users']_vars

====
